---- MODULE Spec2Model ----
(***************************************************************************)
(* Model of src/worker.js: the Cloudflare Worker that relays a learner's   *)
(* answer to the OpenAI Responses API.  The file holds two variants of the *)
(* same fetch handler (lines 5-200 and lines 206-433); `variant` selects   *)
(* the deployed one.  One request is followed from arrival to the          *)
(* response, one action per guard / await of the handler.                  *)
(*                                                                         *)
(* Strings the code inspects character by character (origins, text fields, *)
(* upstream payloads) are sequences of one-character strings.              *)
(***************************************************************************)
EXTENDS Integers, Sequences, FiniteSets, TLC

VARIABLES variant, env, req, pc, exitAt, allowedOrigin, body, responseText,
          learningObjective, criteria, calls, openaiResp, data, jsonText, resp

vars == <<variant, env, req, pc, exitAt, allowedOrigin, body, responseText,
          learningObjective, criteria, calls, openaiResp, data, jsonText, resp>>

----------------------------------------------------------------------------
(* Bounds of the model *)

\* longest run of whitespace put around a text field or an upstream text
MaxPad == 1
\* largest number of entries of a criteria array in a request
MaxCriteria == 1

----------------------------------------------------------------------------
(* Program constants *)

MinLen == 10
MaxLen == 2000
DetailMax == 300
RawMax == 400

LocalhostPrefix == <<"h","t","t","p",":","/","/","l","o","c","a","l","h","o","s","t",":">>
AllowV1 == <<"h","t","t","p","s",":","/","/","T","e","s","s","i","s","-","R","R","R",".","g","i","t","h","u","b",".","i","o">>
AllowV2 == <<"h","t","t","p","s",":","/","/","t","e","s","s","i","s","-","r","r","r",".","g","i","t","h","u","b",".","i","o">>

DigitChars == <<"0","1","2","3","4","5","6","7","8","9">>
Digit == {DigitChars[i] : i \in 1..10}
WS == {" ", "\t", "\n"}

----------------------------------------------------------------------------
(* JavaScript values, as far as JSON can produce them *)

Undef == [t |-> "undef"]
JNull == [t |-> "null"]
JBool(b) == [t |-> "bool", b |-> b]
JNum(n) == [t |-> "num", n |-> n]
JStr(s) == [t |-> "str", s |-> s]
JArr(a) == [t |-> "arr", a |-> a]
JObj(f) == [t |-> "obj", f |-> f]

\* a string of n copies of the character c
Fill(n, c) == [i \in 1..n |-> c]

\* ToBoolean: what `x || ""` and `!x` test
Truthy(v) ==
  CASE v.t = "undef" -> FALSE
    [] v.t = "null" -> FALSE
    [] v.t = "bool" -> v.b
    [] v.t = "num" -> v.n # 0
    [] v.t = "str" -> v.s # <<>>
    [] OTHER -> TRUE

\* v.k throws a TypeError exactly when v is null or undefined
CanRead(v) == v.t \notin {"undef", "null"}

\* v.k for a v that can be read: own JSON property, else undefined
Get(v, k) == IF v.t = "obj" /\ k \in DOMAIN v.f THEN v.f[k] ELSE Undef

RECURSIVE NumToString(_)
NumToString(n) ==
  IF n < 10 THEN <<DigitChars[n + 1]>>
  ELSE NumToString(n \div 10) \o <<DigitChars[(n % 10) + 1]>>

\* String(v)
RECURSIVE String(_)
RECURSIVE Join(_)
Join(a) ==
  IF a = <<>> THEN <<>>
  ELSE LET h == IF Head(a).t \in {"undef", "null"} THEN <<>> ELSE String(Head(a))
       IN IF Len(a) = 1 THEN h ELSE h \o <<",">> \o Join(Tail(a))
String(v) ==
  CASE v.t = "undef" -> <<"u","n","d","e","f","i","n","e","d">>
    [] v.t = "null" -> <<"n","u","l","l">>
    [] v.t = "bool" -> IF v.b THEN <<"t","r","u","e">> ELSE <<"f","a","l","s","e">>
    [] v.t = "num" -> NumToString(v.n)
    [] v.t = "str" -> v.s
    [] v.t = "arr" -> Join(v.a)
    [] OTHER -> <<"[","o","b","j","e","c","t"," ","O","b","j","e","c","t","]">>

\* String.prototype.trim
RECURSIVE FirstNonWs(_, _)
FirstNonWs(s, i) ==
  IF i > Len(s) THEN i ELSE IF s[i] \notin WS THEN i ELSE FirstNonWs(s, i + 1)
RECURSIVE LastNonWs(_, _)
LastNonWs(s, i) ==
  IF i < 1 THEN i ELSE IF s[i] \notin WS THEN i ELSE LastNonWs(s, i - 1)
Trim(s) == SubSeq(s, FirstNonWs(s, 1), LastNonWs(s, Len(s)))

\* s.slice(0, n)
Slice(s, n) == SubSeq(s, 1, IF Len(s) < n THEN Len(s) ELSE n)

\* String(x || "").trim()
TextField(x) == Trim(IF Truthy(x) THEN String(x) ELSE <<>>)

\* Array.isArray(x) ? x.map(String) : []
CriteriaField(x) ==
  IF x.t = "arr" THEN [i \in 1..Len(x.a) |-> String(x.a[i])] ELSE <<>>

----------------------------------------------------------------------------
(* JSON.parse: does the text parse?  Recursive descent over the JSON       *)
(* grammar (objects, arrays, strings with simple escapes, integers, the    *)
(* three literals; no fractions, exponents or \u escapes).  Every parser   *)
(* returns the index after what it consumed, 0 when it fails.              *)

JsonWs == {" ", "\t", "\n", "\r"}
Escapable == {"\"", "\\", "/", "b", "f", "n", "r", "t"}

RECURSIVE SkipWs(_, _)
SkipWs(s, i) ==
  IF i > Len(s) THEN i ELSE IF s[i] \notin JsonWs THEN i ELSE SkipWs(s, i + 1)

RECURSIVE SkipDigits(_, _)
SkipDigits(s, i) ==
  IF i > Len(s) THEN i ELSE IF s[i] \notin Digit THEN i ELSE SkipDigits(s, i + 1)

RECURSIVE ParseStringBody(_, _)
ParseStringBody(s, i) ==
  IF i > Len(s) THEN 0
  ELSE IF s[i] = "\"" THEN i + 1
  ELSE IF s[i] = "\\"
       THEN IF i + 1 <= Len(s) /\ s[i + 1] \in Escapable
            THEN ParseStringBody(s, i + 2) ELSE 0
  ELSE IF s[i] \in {"\n", "\t", "\r"} THEN 0
  ELSE ParseStringBody(s, i + 1)

ParseNumber(s, i) ==
  LET j == IF s[i] = "-" THEN i + 1 ELSE i
  IN IF j > Len(s) \/ s[j] \notin Digit THEN 0
     ELSE IF s[j] = "0" THEN j + 1 ELSE SkipDigits(s, j)

MatchLit(s, i, lit) ==
  IF i + Len(lit) - 1 <= Len(s) /\ SubSeq(s, i, i + Len(lit) - 1) = lit
  THEN i + Len(lit) ELSE 0

RECURSIVE ParseValue(_, _)
RECURSIVE ParseMembers(_, _)
RECURSIVE ParseElements(_, _)
ParseValue(s, i) ==
  IF i > Len(s) THEN 0
  ELSE IF s[i] = "{"
       THEN LET j == SkipWs(s, i + 1)
            IN IF j <= Len(s) /\ s[j] = "}" THEN j + 1 ELSE ParseMembers(s, j)
  ELSE IF s[i] = "["
       THEN LET j == SkipWs(s, i + 1)
            IN IF j <= Len(s) /\ s[j] = "]" THEN j + 1 ELSE ParseElements(s, j)
  ELSE IF s[i] = "\"" THEN ParseStringBody(s, i + 1)
  ELSE IF s[i] = "-" \/ s[i] \in Digit THEN ParseNumber(s, i)
  ELSE IF s[i] = "t" THEN MatchLit(s, i, <<"t","r","u","e">>)
  ELSE IF s[i] = "f" THEN MatchLit(s, i, <<"f","a","l","s","e">>)
  ELSE IF s[i] = "n" THEN MatchLit(s, i, <<"n","u","l","l">>)
  ELSE 0
ParseMembers(s, i) ==
  IF i > Len(s) \/ s[i] # "\"" THEN 0
  ELSE LET k == ParseStringBody(s, i + 1)
           c == SkipWs(s, k)
           v == ParseValue(s, SkipWs(s, c + 1))
           d == SkipWs(s, v)
       IN IF k = 0 THEN 0
          ELSE IF c > Len(s) \/ s[c] # ":" THEN 0
          ELSE IF v = 0 THEN 0
          ELSE IF d > Len(s) THEN 0
          ELSE IF s[d] = "}" THEN d + 1
          ELSE IF s[d] = "," THEN ParseMembers(s, SkipWs(s, d + 1))
          ELSE 0
ParseElements(s, i) ==
  LET v == ParseValue(s, i)
      d == SkipWs(s, v)
  IN IF v = 0 THEN 0
     ELSE IF d > Len(s) THEN 0
     ELSE IF s[d] = "]" THEN d + 1
     ELSE IF s[d] = "," THEN ParseElements(s, SkipWs(s, d + 1))
     ELSE 0

\* JSON.parse(s) returns (TRUE) or throws a SyntaxError (FALSE)
JsonParses(s) ==
  LET e == ParseValue(s, SkipWs(s, 1))
  IN e # 0 /\ SkipWs(s, e) > Len(s)

----------------------------------------------------------------------------
(* Helpers of the handler *)

\* /^http:\/\/localhost:\d+$/.test(origin)
MatchesLocalhost(origin) ==
  /\ Len(origin) > Len(LocalhostPrefix)
  /\ SubSeq(origin, 1, Len(LocalhostPrefix)) = LocalhostPrefix
  /\ \A i \in (Len(LocalhostPrefix) + 1)..Len(origin) : origin[i] \in Digit

\* the origin string each variant compares with
AllowList(v) == IF v = 1 THEN {AllowV1} ELSE {AllowV2}

\* isAllowedOrigin with the localhost pattern left unanchored at its end
isAllowedOrigin_Unanchored(v, origin) ==
  IF origin = <<>> THEN JNull
  ELSE IF /\ Len(origin) > Len(LocalhostPrefix)
          /\ SubSeq(origin, 1, Len(LocalhostPrefix)) = LocalhostPrefix
          /\ origin[Len(LocalhostPrefix) + 1] \in Digit
       THEN JStr(origin)
  ELSE IF origin \in AllowList(v) THEN JStr(origin)
  ELSE JNull

\* isAllowedOrigin(origin): the origin itself, or null
isAllowedOrigin(v, origin) ==
  IF origin = <<>> THEN JNull
  ELSE IF MatchesLocalhost(origin) THEN JStr(origin)
  ELSE IF origin \in AllowList(v) THEN JStr(origin)
  ELSE JNull

\* corsHeaders answering every allowed origin with the wildcard
corsHeaders_Wildcard(origin) ==
  IF ~Truthy(origin) THEN <<>>
  ELSE [h \in {"Access-Control-Allow-Origin", "Access-Control-Allow-Methods",
               "Access-Control-Allow-Headers"} |->
          CASE h = "Access-Control-Allow-Origin" -> <<"*">>
            [] h = "Access-Control-Allow-Methods" -> <<"P","O","S","T",","," ","O","P","T","I","O","N","S">>
            [] OTHER -> <<"C","o","n","t","e","n","t","-","T","y","p","e">>]

\* corsHeaders(origin): a map from header name to value
corsHeaders(origin) ==
  IF ~Truthy(origin) THEN <<>>
  ELSE [h \in {"Access-Control-Allow-Origin", "Access-Control-Allow-Methods",
               "Access-Control-Allow-Headers"} |->
          CASE h = "Access-Control-Allow-Origin" -> origin.s
            [] h = "Access-Control-Allow-Methods" -> <<"P","O","S","T",","," ","O","P","T","I","O","N","S">>
            [] OTHER -> <<"C","o","n","t","e","n","t","-","T","y","p","e">>]

ContentTypeJson ==
  [h \in {"Content-Type"} |->
     <<"a","p","p","l","i","c","a","t","i","o","n","/","j","s","o","n">>]

\* { "Content-Type": "application/json", ...corsHeaders(o) }
JsonHeaders(o) == corsHeaders(o) @@ ContentTypeJson

\* new Response(body, { status, headers })
Response(status, headers, b) ==
  [kind |-> "response", status |-> status, headers |-> headers, body |-> b]
EmptyBody == [kind |-> "empty"]
TextBody(t) == [kind |-> "text", text |-> t]
\* JSON.stringify of an object literal: the object's fields
JsonBody(fields) == [kind |-> "json", json |-> fields]

\* the handler's promise rejects: no Response object is produced
Exception(name) == [kind |-> "exception", error |-> name]
NoResponse == [kind |-> "none"]

\* extractTextFromResponsesOutput(d)
RECURSIVE ScanContent(_)
ScanContent(content) ==
  IF content = <<>> THEN <<>>
  ELSE LET c == Head(content)
           text == IF Truthy(c) THEN Get(c, "text") ELSE Undef
       IN IF text.t = "str" /\ Trim(text.s) # <<>> THEN Trim(text.s)
          ELSE ScanContent(Tail(content))
RECURSIVE ScanOutput(_)
ScanOutput(out) ==
  IF out = <<>> THEN <<>>
  ELSE IF ~CanRead(Head(out)) THEN <<>>       \* item.content throws: catch
  ELSE LET cv == Get(Head(out), "content")
           found == ScanContent(IF cv.t = "arr" THEN cv.a ELSE <<>>)
       IN IF found # <<>> THEN found ELSE ScanOutput(Tail(out))
extractTextFromResponsesOutput(d) ==
  IF ~CanRead(d) THEN <<>>                     \* d.output throws: catch
  ELSE LET o == Get(d, "output")
       IN ScanOutput(IF o.t = "arr" THEN o.a ELSE <<>>)

\* (typeof d.output_text === "string" && d.output_text.trim()) || extract(d) || ""
ExtractJsonText(d) ==
  LET ot == Get(d, "output_text")
      top == IF ot.t = "str" THEN Trim(ot.s) ELSE <<>>
  IN IF top # <<>> THEN top ELSE extractTextFromResponsesOutput(d)

\* the length test with both comparisons off by one
LengthOutOfRange_OffByOne(text) == Len(text) <= MinLen \/ Len(text) >= MaxLen

\* responseText.length < 10 || responseText.length > 2000
LengthOutOfRange(text) == Len(text) < MinLen \/ Len(text) > MaxLen

\* openaiResp.ok
Ok(r) == r.status \in 200..299

----------------------------------------------------------------------------
(* Inputs: deployments, requests and upstream outcomes *)

Pad(n) == Fill(n, " ")
Pads == {Pad(n) : n \in 0..MaxPad}
Padded(core) == {l \o core \o t : l \in Pads, t \in Pads}

Evil == <<"h","t","t","p","s",":","/","/","e","v","i","l",".","e","x","a","m","p","l","e">>
LocalPort == LocalhostPrefix \o <<"8","0","8","0">>
LocalSuffix == LocalhostPrefix \o <<"8","0",".","e","v","i","l">>
ApiKey == <<"s","k","-","1">>
Objective == <<"s","u","m"," ","t","w","o">>
VerdictText == <<"{","\"","v","e","r","d","i","c","t","\"",":","\"","C","o","r","r","e","c","t","\"","}">>
NotJsonText == <<"n","o","t"," ","j","s","o","n">>

\* env.OPENAI_API_KEY: unset, empty, set
Envs == {[OPENAI_API_KEY |-> k] : k \in {Undef, JStr(<<>>), JStr(ApiKey)}}

Methods == {"OPTIONS", "GET", "POST"}

\* request.headers.get("Origin"): null when the header is absent
OriginHeaders ==
  {JNull} \cup {JStr(o) : o \in {<<>>, Evil, LocalhostPrefix, LocalPort,
                                 LocalSuffix, AllowV1, AllowV2}}

\* response_text values: text whose trimmed length sits on and around both
\* limits, and non-string JSON values
ResponseTexts ==
  UNION {{JStr(x) : x \in Padded(Fill(n, "a"))} :
           n \in {0, MinLen - 1, MinLen, MaxLen, MaxLen + 1}}
  \cup {Undef, JNull, JNum(0), JNum(1234567890), JNum(123456789), JBool(TRUE),
        JObj(<<>>), JArr(<<JStr(Fill(MinLen, "a")), JNull>>)}

LearningObjectives ==
  {JStr(x) : x \in Padded(Objective) \cup Pads} \cup {Undef, JNum(0), JNum(7)}

CriteriaEntries == {JStr(<<"c">>), JNum(1)}
RECURSIVE SeqsUpTo(_, _)
SeqsUpTo(S, n) ==
  IF n = 0 THEN {<<>>}
  ELSE LET shorter == SeqsUpTo(S, n - 1)
       IN shorter \cup {Append(q, x) : q \in shorter, x \in S}
CriteriaValues ==
  {Undef, JStr(<<"c">>)} \cup {JArr(a) : a \in SeqsUpTo(CriteriaEntries, MaxCriteria)}

Fields(rt, lo, cr) ==
  [k \in {"response_text", "learning_objective", "criteria"} |->
     CASE k = "response_text" -> rt
       [] k = "learning_objective" -> lo
       [] OTHER -> cr]
GoodText == JStr(Fill(MinLen, "a"))
GoodObjective == JStr(Objective)
BadText == JStr(Fill(MinLen - 1, "a"))

\* what request.json() meets: a body that is not JSON, or a JSON value
Bodies ==
  {[kind |-> "malformed"]}
  \cup {[kind |-> "json", value |-> v] :
          v \in {JNull, JNum(5), JStr(<<"h","i">>), JBool(TRUE), JArr(<<>>), JObj(<<>>)}}
  \cup {[kind |-> "json", value |-> JObj(Fields(rt, GoodObjective, JArr(<<>>)))] :
          rt \in ResponseTexts}
  \cup {[kind |-> "json", value |-> JObj(Fields(rt, lo, JArr(<<>>)))] :
          rt \in {GoodText, BadText}, lo \in LearningObjectives}
  \cup {[kind |-> "json", value |-> JObj(Fields(GoodText, GoodObjective, cr))] :
          cr \in CriteriaValues}

Requests == [method : Methods, origin : OriginHeaders, body : Bodies]

\* request.headers.get("Origin") || ""
Origin(r) == IF Truthy(r.origin) THEN r.origin.s ELSE <<>>

TextItem(t) == JObj([k \in {"text"} |-> t])
ContentItem(c) == JObj([k \in {"content"} |-> c])
OutputOnly(out) == JObj([k \in {"output"} |-> out])
TextOnly(t) == JObj([k \in {"output_text"} |-> t])
TextAndOutput(t, out) ==
  JObj([k \in {"output_text", "output"} |-> IF k = "output_text" THEN t ELSE out])

\* JSON payloads of a 2xx answer of the Responses API
UpstreamValues ==
  {JNull, JNum(5), JObj(<<>>)}
  \cup {TextOnly(JStr(x)) : x \in Padded(VerdictText) \cup Padded(NotJsonText) \cup Pads}
  \cup {TextOnly(JStr(Fill(RawMax + 1, "x"))), TextOnly(JNum(5))}
  \cup {TextAndOutput(JStr(Pad(1)), JArr(<<ContentItem(JArr(<<TextItem(JStr(x))>>))>>)) :
          x \in Padded(VerdictText)}
  \cup {OutputOnly(JArr(<<JNull, ContentItem(JArr(<<TextItem(JStr(VerdictText))>>))>>)),
        OutputOnly(JArr(<<ContentItem(JStr(VerdictText)),
                          ContentItem(JArr(<<JNull, TextItem(JStr(Pad(1))),
                                             TextItem(JNum(5)),
                                             TextItem(JStr(NotJsonText))>>))>>)),
        OutputOnly(JStr(VerdictText))}

ErrorTexts == {<<>>, <<"r","a","t","e">>, Fill(DetailMax + 1, "e")}

\* how the outbound fetch settles: it rejects, or it resolves with a status
\* and a payload
UpstreamOutcomes ==
  {[kind |-> "reject"]}
  \cup {[kind |-> "response", status |-> st, payload |-> [kind |-> "text", text |-> t]] :
          st \in {404, 500}, t \in ErrorTexts}
  \cup {[kind |-> "response", status |-> st, payload |-> [kind |-> "text", text |-> NotJsonText]] :
          st \in {200, 299}}
  \cup {[kind |-> "response", status |-> 200, payload |-> [kind |-> "json", value |-> v]] :
          v \in UpstreamValues}

----------------------------------------------------------------------------
(* The handler *)

Init ==
  /\ variant \in {1, 2}
  /\ env \in Envs
  /\ req \in Requests
  /\ pc = "start"
  /\ exitAt = "none"
  /\ allowedOrigin = JNull
  /\ body = Undef
  /\ responseText = <<>>
  /\ learningObjective = <<>>
  /\ criteria = <<>>
  /\ calls = 0
  /\ openaiResp = [kind |-> "none"]
  /\ data = Undef
  /\ jsonText = <<>>
  /\ resp = NoResponse

\* return r from the statement labelled pc
Return(r) ==
  /\ resp' = r
  /\ exitAt' = pc
  /\ pc' = "done"

\* fall through to the next statement
Goto(next) ==
  /\ pc' = next
  /\ UNCHANGED <<resp, exitAt>>

\* const origin = ...; const allowedOrigin = isAllowedOrigin(origin);
Start ==
  /\ pc = "start"
  /\ allowedOrigin' = isAllowedOrigin(variant, Origin(req))
  /\ Goto("preflight")
  /\ UNCHANGED <<variant, env, req, body, responseText, learningObjective,
                 criteria, calls, openaiResp, data, jsonText>>

\* the preflight answered only for allowed origins
Preflight_AllowedOnly ==
  /\ pc = "preflight"
  /\ IF req.method = "OPTIONS" /\ Truthy(allowedOrigin)
     THEN Return(Response(204, corsHeaders(allowedOrigin), EmptyBody))
     ELSE Goto("method")
  /\ UNCHANGED <<variant, env, req, allowedOrigin, body, responseText,
                 learningObjective, criteria, calls, openaiResp, data, jsonText>>

\* if (request.method === "OPTIONS") return 204
Preflight ==
  /\ pc = "preflight"
  /\ IF req.method = "OPTIONS"
     THEN Return(Response(204, corsHeaders(allowedOrigin), EmptyBody))
     ELSE Goto("method")
  /\ UNCHANGED <<variant, env, req, allowedOrigin, body, responseText,
                 learningObjective, criteria, calls, openaiResp, data, jsonText>>

\* if (request.method !== "POST") return 405
MethodGuard ==
  /\ pc = "method"
  /\ IF req.method # "POST"
     THEN Return(Response(405, <<>>, TextBody("Method not allowed")))
     ELSE Goto("origin")
  /\ UNCHANGED <<variant, env, req, allowedOrigin, body, responseText,
                 learningObjective, criteria, calls, openaiResp, data, jsonText>>

\* headers of the 403: variant 1 sets Content-Type only, variant 2 spreads
\* corsHeaders(origin) of the raw request origin
OriginGuardHeaders(v, origin) ==
  IF v = 1 THEN ContentTypeJson ELSE JsonHeaders(JStr(origin))

\* if (!allowedOrigin) return 403
OriginGuard ==
  /\ pc = "origin"
  /\ IF ~Truthy(allowedOrigin)
     THEN Return(Response(403, OriginGuardHeaders(variant, Origin(req)),
                          JsonBody([error |-> "Origin not allowed",
                                    origin |-> Origin(req)])))
     ELSE Goto("parse")
  /\ UNCHANGED <<variant, env, req, allowedOrigin, body, responseText,
                 learningObjective, criteria, calls, openaiResp, data, jsonText>>

\* try { body = await request.json() } catch { return 400 }
ParseBody ==
  /\ pc = "parse"
  /\ IF req.body.kind = "malformed"
     THEN /\ Return(Response(400, JsonHeaders(allowedOrigin),
                             JsonBody([error |-> "Invalid JSON"])))
          /\ UNCHANGED body
     ELSE /\ body' = req.body.value
          /\ Goto("extract")
  /\ UNCHANGED <<variant, env, req, allowedOrigin, responseText,
                 learningObjective, criteria, calls, openaiResp, data, jsonText>>

\* const responseText = ...; const learningObjective = ...; const criteria = ...
\* body.response_text on a null body throws, outside every try
ExtractFields ==
  /\ pc = "extract"
  /\ IF ~CanRead(body)
     THEN /\ Return(Exception("TypeError"))
          /\ UNCHANGED <<responseText, learningObjective, criteria>>
     ELSE /\ responseText' = TextField(Get(body, "response_text"))
          /\ learningObjective' = TextField(Get(body, "learning_objective"))
          /\ criteria' = CriteriaField(Get(body, "criteria"))
          /\ Goto("length")
  /\ UNCHANGED <<variant, env, req, allowedOrigin, body, calls, openaiResp,
                 data, jsonText>>

\* if (responseText.length < 10 || responseText.length > 2000) return 400
LengthGuard ==
  /\ pc = "length"
  /\ IF LengthOutOfRange(responseText)
     THEN Return(Response(400, JsonHeaders(allowedOrigin),
                          JsonBody([error |-> "Response length out of range"])))
     ELSE Goto("objective")
  /\ UNCHANGED <<variant, env, req, allowedOrigin, body, responseText,
                 learningObjective, criteria, calls, openaiResp, data, jsonText>>

\* if (!learningObjective) return 400
ObjectiveGuard ==
  /\ pc = "objective"
  /\ IF learningObjective = <<>>
     THEN Return(Response(400, JsonHeaders(allowedOrigin),
                          JsonBody([error |-> "Missing learning_objective"])))
     ELSE Goto("secret")
  /\ UNCHANGED <<variant, env, req, allowedOrigin, body, responseText,
                 learningObjective, criteria, calls, openaiResp, data, jsonText>>

\* the secret test taking an empty key for a configured one
SecretMissing_UnsetOnly(e) == e.OPENAI_API_KEY.t = "undef"

\* !env.OPENAI_API_KEY
SecretMissing(e) == ~Truthy(e.OPENAI_API_KEY)

\* if (!env.OPENAI_API_KEY) return 500
SecretGuard ==
  /\ pc = "secret"
  /\ IF SecretMissing(env)
     THEN Return(Response(500, JsonHeaders(allowedOrigin),
                          JsonBody([error |-> "Missing OPENAI_API_KEY"])))
     ELSE Goto("call")
  /\ UNCHANGED <<variant, env, req, allowedOrigin, body, responseText,
                 learningObjective, criteria, calls, openaiResp, data, jsonText>>

\* fetch("https://api.openai.com/v1/responses", ...): the call is issued and
\* the handler suspends on the await
CallOpenAI ==
  /\ pc = "call"
  /\ calls' = calls + 1
  /\ Goto("await")
  /\ UNCHANGED <<variant, env, req, allowedOrigin, body, responseText,
                 learningObjective, criteria, openaiResp, data, jsonText>>

\* the await settles: a rejection is thrown out of the handler (no try
\* around the fetch), a resolution is bound to openaiResp
Resume ==
  /\ pc = "await"
  /\ \E r \in UpstreamOutcomes :
       IF r.kind = "reject"
       THEN /\ Return(Exception("NetworkError"))
            /\ UNCHANGED openaiResp
       ELSE /\ openaiResp' = r
            /\ Goto("ok")
  /\ UNCHANGED <<variant, env, req, allowedOrigin, body, responseText,
                 learningObjective, criteria, calls, data, jsonText>>

\* if (!openaiResp.ok) { err = await openaiResp.text(); return 502 }
CheckOk ==
  /\ pc = "ok"
  /\ IF ~Ok(openaiResp)
     THEN Return(Response(502, JsonHeaders(allowedOrigin),
                          JsonBody([error |-> "OpenAI error",
                                    detail |-> Slice(openaiResp.payload.text, DetailMax)])))
     ELSE Goto("data")
  /\ UNCHANGED <<variant, env, req, allowedOrigin, body, responseText,
                 learningObjective, criteria, calls, openaiResp, data, jsonText>>

\* const data = await openaiResp.json(): throws on a payload that is not
\* JSON, outside every try
ReadData ==
  /\ pc = "data"
  /\ IF openaiResp.payload.kind # "json"
     THEN /\ Return(Exception("SyntaxError"))
          /\ UNCHANGED data
     ELSE /\ data' = openaiResp.payload.value
          /\ Goto("text")
  /\ UNCHANGED <<variant, env, req, allowedOrigin, body, responseText,
                 learningObjective, criteria, calls, openaiResp, jsonText>>

\* const jsonText = ...: data.output_text on a null payload throws
ExtractText ==
  /\ pc = "text"
  /\ IF ~CanRead(data)
     THEN /\ Return(Exception("TypeError"))
          /\ UNCHANGED jsonText
     ELSE /\ jsonText' = ExtractJsonText(data)
          /\ Goto("verdict")
  /\ UNCHANGED <<variant, env, req, allowedOrigin, body, responseText,
                 learningObjective, criteria, calls, openaiResp, data>>

\* body of the 500: variant 1 adds openai_response_preview (its presence is
\* modelled, not its text)
NonJsonBody(v, text) ==
  IF v = 1
  THEN JsonBody([error |-> "Model returned non-JSON",
                 raw |-> Slice(text, RawMax),
                 openai_response_preview |-> "preview"])
  ELSE JsonBody([error |-> "Model returned non-JSON",
                 raw |-> Slice(text, RawMax)])

\* JSON.stringify(JSON.parse(jsonText)): the verdict, named by its source text
VerdictBody(text) == [kind |-> "verdict", source |-> text]

\* try { parsed = JSON.parse(jsonText) } catch { return 500 }; return 200
ParseVerdict ==
  /\ pc = "verdict"
  /\ IF ~JsonParses(jsonText)
     THEN Return(Response(500, JsonHeaders(allowedOrigin),
                          NonJsonBody(variant, jsonText)))
     ELSE Return(Response(200, JsonHeaders(allowedOrigin), VerdictBody(jsonText)))
  /\ UNCHANGED <<variant, env, req, allowedOrigin, body, responseText,
                 learningObjective, criteria, calls, openaiResp, data, jsonText>>

Next ==
  \/ Start
  \/ Preflight
  \/ MethodGuard
  \/ OriginGuard
  \/ ParseBody
  \/ ExtractFields
  \/ LengthGuard
  \/ ObjectiveGuard
  \/ SecretGuard
  \/ CallOpenAI
  \/ Resume
  \/ CheckOk
  \/ ReadData
  \/ ExtractText
  \/ ParseVerdict

Spec == Init /\ [][Next]_vars

----------------------------------------------------------------------------
(* Vocabulary of the properties *)

\* the request's origin is on the variant's allow-list or is a localhost origin
OriginPermitted ==
  Origin(req) \in AllowList(variant) \/ MatchesLocalhost(Origin(req))

Responded == pc = "done" /\ resp.kind = "response"
Status == IF resp.kind = "response" THEN resp.status ELSE 0
\* the response body is a JSON object with an error field
HasErrorBody ==
  /\ resp.kind = "response"
  /\ resp.body.kind = "json"
  /\ "error" \in DOMAIN resp.body.json
ErrorIs(msg) == HasErrorBody /\ resp.body.json.error = msg
CorsNames == {"Access-Control-Allow-Origin", "Access-Control-Allow-Methods",
              "Access-Control-Allow-Headers"}

\* the statements after the field extraction
AfterExtract == {"length", "objective", "secret", "call", "await", "ok",
                 "data", "text", "verdict"}
\* responseText, learningObjective and criteria have been computed
Extracted == pc \in AfterExtract \/ (pc = "done" /\ exitAt \in AfterExtract)

----------------------------------------------------------------------------
(* Properties *)

\* C1: a POST whose Origin is neither on the allow-list nor a localhost
\* origin (absent and empty included) is answered with status 403, whatever
\* its body.
C1_DisallowedOrigin403 ==
  (pc = "done" /\ req.method = "POST" /\ ~OriginPermitted) => Status = 403

\* C1 witness: a disallowed origin with a body that would pass every later
\* check is answered 403.
C1_Witness ==
  /\ pc = "done"
  /\ req.method = "POST"
  /\ ~OriginPermitted
  /\ req.origin.t = "str"
  /\ req.origin.s # <<>>
  /\ req.body.kind = "json"
  /\ req.body.value = JObj(Fields(GoodText, GoodObjective, JArr(<<>>)))
  /\ Status = 403

\* C2: once the fields of a POST from an allowed origin are extracted, a
\* trimmed response_text shorter than 10 or longer than 2000 gives status 400
\* and no call of the grading API; lengths 10 and 2000 are not rejected by
\* the length check.
C2_LengthGuard ==
  (req.method = "POST" /\ OriginPermitted /\ req.body.kind = "json" /\ Extracted) =>
    /\ (Len(responseText) < 10 \/ Len(responseText) > 2000) =>
         (calls = 0 /\ (pc = "done" => Status = 400))
    /\ Len(responseText) \in {10, 2000} => ~(pc = "done" /\ exitAt = "length")

\* C2 witness: a response_text one character too long, hidden behind
\* padding, is rejected with 400.
C2_Witness ==
  /\ pc = "done"
  /\ exitAt = "length"
  /\ Len(responseText) = 2001
  /\ Len(req.body.value.f["response_text"].s) > 2001
  /\ Status = 400
  /\ calls = 0

\* C3 (as claimed): after the outbound call is issued, every failure of it,
\* a rejected fetch or a non-2xx status, gives status 502 with a JSON error
\* body.
C3_UpstreamFailure502 ==
  (pc = "done" /\ calls = 1 /\
     (exitAt = "await" \/ (openaiResp.kind = "response" /\ ~(openaiResp.status \in 200..299))))
  => (Status = 502 /\ HasErrorBody)

\* C4 (as claimed): a 2xx answer that yields no parseable JSON verdict (the
\* payload is not JSON, or the extracted text is empty or not JSON) gives
\* status 500 with a JSON body holding error and raw, raw being the extracted
\* text (its first 400 characters).
C4_NoVerdict500 ==
  (pc = "done" /\ openaiResp.kind = "response" /\ openaiResp.status \in 200..299 /\
     (exitAt \in {"data", "text"} \/ (exitAt = "verdict" /\ ~JsonParses(jsonText))))
  => /\ Status = 500
     /\ HasErrorBody
     /\ "raw" \in DOMAIN resp.body.json
     /\ resp.body.json.raw = Slice(jsonText, 400)

\* C5 (as claimed): a POST from an allowed origin whose body is not a JSON
\* object (malformed, or null, a number, a string, an array) gives status 400
\* with a JSON error body and never calls the grading API.
C5_NonObjectBody400 ==
  (req.method = "POST" /\ OriginPermitted /\
     (req.body.kind = "malformed" \/ req.body.value.t # "obj"))
  => (calls = 0 /\ (pc = "done" => (Status = 400 /\ HasErrorBody)))

\* C6 (as claimed): no response to a request whose origin is not allowed
\* carries a CORS header, the 403 and the preflight answer alike.
C6_NoCorsForDisallowed ==
  (Responded /\ ~OriginPermitted) => DOMAIN resp.headers \cap CorsNames = {}

\* C7 (as claimed): every response to a request whose origin is allowed
\* carries Access-Control-Allow-Origin equal to the request's Origin.
C7_OriginEchoAll ==
  (Responded /\ OriginPermitted) =>
    /\ "Access-Control-Allow-Origin" \in DOMAIN resp.headers
    /\ resp.headers["Access-Control-Allow-Origin"] = Origin(req)

\* C7 (amended): every response the handler returns to an OPTIONS or POST
\* request whose origin is allowed carries Access-Control-Allow-Origin equal
\* to the request's Origin; the 405 of any other method carries no CORS
\* header.
C7_OriginEcho ==
  /\ (Responded /\ OriginPermitted /\ req.method \in {"OPTIONS", "POST"}) =>
       /\ "Access-Control-Allow-Origin" \in DOMAIN resp.headers
       /\ resp.headers["Access-Control-Allow-Origin"] = Origin(req)
  /\ (Responded /\ req.method \notin {"OPTIONS", "POST"}) =>
       (Status = 405 /\ DOMAIN resp.headers \cap CorsNames = {})

\* C7 witness: a graded answer (200) echoes a localhost origin.
C7_Witness ==
  /\ Responded
  /\ Status = 200
  /\ MatchesLocalhost(Origin(req))
  /\ resp.headers["Access-Control-Allow-Origin"] = Origin(req)

\* C8: an OPTIONS request, whatever its origin, body and credential, gets
\* status 204 with an empty body and never calls the grading API.
C8_Preflight204 ==
  req.method = "OPTIONS" =>
    /\ calls = 0
    /\ pc = "done" => (Status = 204 /\ resp.body.kind = "empty")

\* C8 witness: a preflight from a disallowed origin, with a malformed body
\* and no credential, is answered 204.
C8_Witness ==
  /\ pc = "done"
  /\ req.method = "OPTIONS"
  /\ ~OriginPermitted
  /\ req.body.kind = "malformed"
  /\ ~Truthy(env.OPENAI_API_KEY)
  /\ Status = 204

\* the text fields as the request carries them (absent on a body that has
\* no properties)
RequestText == TextField(Get(req.body.value, "response_text"))
RequestObjective == TextField(Get(req.body.value, "learning_objective"))

\* C9 (as claimed): the checks run in the order preflight, method, origin,
\* body parse, response_text length, learning_objective, credential, and the
\* response is that of the first check that fails; a request that fails none
\* reaches the grading API.
C9_FirstFailingCheck ==
  pc = "done" =>
    IF req.method = "OPTIONS" THEN Status = 204
    ELSE IF req.method # "POST" THEN Status = 405
    ELSE IF ~OriginPermitted THEN Status = 403
    ELSE IF req.body.kind = "malformed" THEN Status = 400 /\ ErrorIs("Invalid JSON")
    ELSE IF Len(RequestText) < 10 \/ Len(RequestText) > 2000
         THEN Status = 400 /\ ErrorIs("Response length out of range")
    ELSE IF RequestObjective = <<>>
         THEN Status = 400 /\ ErrorIs("Missing learning_objective")
    ELSE IF ~Truthy(env.OPENAI_API_KEY)
         THEN Status = 500 /\ ErrorIs("Missing OPENAI_API_KEY")
    ELSE calls = 1

\* C10: the grading API is called at most once per request, and only after
\* every gatekeeper check has passed; no second call follows a failed one.
C10_CallOnceAfterChecks ==
  /\ calls <= 1
  /\ calls > 0 =>
       /\ req.method = "POST"
       /\ OriginPermitted
       /\ req.body.kind = "json"
       /\ Extracted
       /\ Len(responseText) >= 10
       /\ Len(responseText) <= 2000
       /\ learningObjective # <<>>
       /\ Truthy(env.OPENAI_API_KEY)

\* C10 witness: the single call was made, failed with a non-2xx status, and
\* the request ended with 502 without another call.
C10_Witness ==
  /\ pc = "done"
  /\ calls = 1
  /\ openaiResp.kind = "response"
  /\ openaiResp.status = 500
  /\ Status = 502

====
